---------------------------- MODULE Spec2Model ----------------------------
(***************************************************************************)
(* A model of the go-zerodev client: the EntryPoint 0.7 packing and        *)
(* hashing of a UserOperation (EntrypointClient07), the Client's build /   *)
(* sign / submit pipeline, NewClient with its connections, and several     *)
(* invocations interleaved on one Client.                                  *)
(*                                                                         *)
(* Byte strings are sequences over 0..255.  A *big.Int is a record         *)
(* [neg, abs] whose abs is the minimal big-endian magnitude, as math/big   *)
(* keeps it.  keccak256 is collision-free: Keccak256Hash(b) is the record  *)
(* [keccak |-> b].  The ABI tuple encoder is modelled on its declared      *)
(* domain (address, uint256, bytes32), one 32-byte word per argument.      *)
(***************************************************************************)
EXTENDS Integers, Sequences, FiniteSets

VARIABLES
    \* ---- codec harness: EntrypointClient07 applied to chosen inputs ----
    cop,        \* the UserOperation handed to PackUserOperation
    centry,     \* the gateway: [Address, ChainID]
    cpacked,    \* PackUserOperation(cop)
    chash,      \* GetUserOperationHash(cop) on centry
    \* ---- the Client and one invocation of its API at a time ----
    client,     \* the Client returned by NewClient
    api,        \* the exported method that is running (or ran last)
    args,       \* its arguments: [sender, callData, waitForReceipt]
    pc,         \* the collaborator call it is about to make
    op,         \* the UserOperation it is building / sending
    opHash,     \* SendUserOperation's opHash
    response,   \* SendSignedUserOperation's response
    calls,      \* the collaborator calls made so far: [name, status, arg, res]
    poll,       \* progress of BundlerClient.GetUserOperationReceipt
    ret,        \* what the method returned: [op, hash, result, err] (and receipt)
    \* ---- one call of NewClient ----
    config,     \* the ClientConfig it was given
    npc,        \* the statement NewClient is about to execute
    conns,      \* the three RPC connections: "none", "failed", "open", "closed"
    nret,       \* what NewClient returned: [client, err]
    \* ---- several invocations running on the one Client ----
    inv,        \* per invocation: its arguments, position, locals and return
    chainNonce, \* the EntryPoint contract's nonce of the account
    pending     \* operations the bundler accepted and has not executed yet

cvars == <<cop, centry, cpacked, chash>>

ovars == <<client, api, args, pc, op, opHash, response, calls, poll, ret>>

nvars == <<config, npc, conns, nret>>

kvars == <<inv, chainNonce, pending>>

\* what the actions of one part of the model leave alone
offCodec == <<ovars, nvars, kvars>>
offClient == <<cvars, nvars, kvars>>
offNew == <<cvars, ovars, kvars>>
offConc == <<cvars, ovars, nvars>>

-----------------------------------------------------------------------------
(* Bounds of the model *)

\* largest byte value used when enumerating small integers
MaxByte == 1

(* Program constants *)

\* common.LeftPadBytes(first, 16) / (second, 16)
HalfLen == 16
\* var array [32]byte; also the width of one ABI word
WordLen == 32
\* bytes of a common.Address (entryPointAddress07 is 20 bytes)
AddressLength == 20

-----------------------------------------------------------------------------
(* Byte strings and big integers *)

Rep(b, n) == [i \in 1..n |-> b]

\* a non-negative *big.Int with magnitude bytes m
Big(m) == [neg |-> FALSE, abs |-> m]

\* a nil *big.Int (the zero value of an unset field)
NilBig == [nil |-> TRUE]

\* (*big.Int).Bytes(): the absolute value, big-endian, no leading zero
Bytes(x) == x.abs

\* common.LeftPadBytes: the slice itself when it is already l bytes or more
LeftPadBytes(slice, l) ==
    IF l <= Len(slice) THEN slice ELSE Rep(0, l - Len(slice)) \o slice

\* crypto.Keccak256Hash, collision-free
Keccak256Hash(b) == [keccak |-> b]

\* abi encoding of one argument of type address / uint256 / bytes32; a
\* uint256 argument is taken below 2^256 (at most 32 bytes)
PackAddress(a) == LeftPadBytes(a, WordLen)
PackUint256(x) == LeftPadBytes(Bytes(x), WordLen)
PackBytes32(w) == w

-----------------------------------------------------------------------------
(* EntrypointClient07: packing and hashing *)

\* faulty variant: the second value is written first
createPackedBufferSwapped(first, second) ==
    LeftPadBytes(second, HalfLen) \o LeftPadBytes(first, HalfLen)

\* faulty variant: the two values are joined and the whole slot is padded
createPackedBufferWholePad(first, second) ==
    LeftPadBytes(first \o second, WordLen)

\* createPackedBuffer combines two byte slices into a single buffer with padding
createPackedBuffer(first, second) ==
    LeftPadBytes(first, HalfLen) \o LeftPadBytes(second, HalfLen)

\* toArray32: copy(array[:], buffer.Bytes()) into a zeroed [32]byte
toArray32(buffer) ==
    [i \in 1..WordLen |-> IF i <= Len(buffer) THEN buffer[i] ELSE 0]

\* the 32-byte slot built from a pair of integers
PackedSlot(first, second) ==
    toArray32(createPackedBuffer(Bytes(first), Bytes(second)))

\* faulty variant: verificationGasLimit is packed twice, callGasLimit never
PackUserOperationNoCallGas(uop) ==
    << PackAddress(uop.Sender),
       PackUint256(uop.Nonce),
       PackBytes32(Keccak256Hash(<<>>)),
       PackBytes32(Keccak256Hash(uop.CallData)),
       PackBytes32(PackedSlot(uop.VerificationGasLimit, uop.VerificationGasLimit)),
       PackUint256(uop.PreVerificationGas),
       PackBytes32(PackedSlot(uop.MaxPriorityFeePerGas, uop.MaxFeePerGas)),
       PackBytes32(Keccak256Hash(<<>>)) >>

\* faulty variant: the last slot hashes the paymaster and its data
PackUserOperationPaymasterData(uop) ==
    << PackAddress(uop.Sender),
       PackUint256(uop.Nonce),
       PackBytes32(Keccak256Hash(<<>>)),
       PackBytes32(Keccak256Hash(uop.CallData)),
       PackBytes32(PackedSlot(uop.VerificationGasLimit, uop.CallGasLimit)),
       PackUint256(uop.PreVerificationGas),
       PackBytes32(PackedSlot(uop.MaxPriorityFeePerGas, uop.MaxFeePerGas)),
       PackBytes32(Keccak256Hash(uop.Paymaster \o uop.PaymasterData)) >>

\* PackUserOperation: the eight words handed to args.Pack
PackUserOperation(uop) ==
    LET hashedInitCode == Keccak256Hash(<<>>)
        hashedCallData == Keccak256Hash(uop.CallData)
        accountGasLimits == PackedSlot(uop.VerificationGasLimit, uop.CallGasLimit)
        gasFees == PackedSlot(uop.MaxPriorityFeePerGas, uop.MaxFeePerGas)
        hashedPaymasterAndData == Keccak256Hash(<<>>)
    IN  << PackAddress(uop.Sender),
           PackUint256(uop.Nonce),
           PackBytes32(hashedInitCode),
           PackBytes32(hashedCallData),
           PackBytes32(accountGasLimits),
           PackUint256(uop.PreVerificationGas),
           PackBytes32(gasFees),
           PackBytes32(hashedPaymasterAndData) >>

\* faulty variant: the chain ID is left out of the outer tuple
GetUserOperationHashNoChain(e, uop) ==
    Keccak256Hash(<< PackBytes32(Keccak256Hash(PackUserOperation(uop))),
                     PackAddress(e.Address) >>)

\* GetUserOperationHash: keccak256 of (keccak256(packedOp), Address, ChainID)
GetUserOperationHash(e, uop) ==
    LET packedOp == PackUserOperation(uop)
        packed == << PackBytes32(Keccak256Hash(packedOp)),
                     PackAddress(e.Address),
                     PackUint256(e.ChainID) >>
    IN  Keccak256Hash(packed)

-----------------------------------------------------------------------------
(* Inputs of the codec harness *)

\* entryPointAddress07 = 0x0000000071727De22E5E9d8BAf0edAc6f37da032
EntryPointAddress07 ==
    <<0, 0, 0, 0, 113, 114, 125, 226, 46, 94, 157, 139, 175, 14, 218, 198,
      243, 125, 160, 50>>

\* integers 0..MaxByte
SmallInts == {Big(<<>>)} \cup {Big(<<b>>) : b \in 1..MaxByte}

\* values for the four fields packed in pairs: small ones, the largest
\* width that fits a half (16 bytes) and one byte more than fits (17 bytes)
HalfVals == SmallInts \cup {Big(Rep(1, HalfLen)), Big(Rep(1, HalfLen + 1))}

\* values for the fields encoded as uint256
U256Vals == {Big(<<>>), Big(Rep(1, WordLen))}

Senders == {Rep(170, AddressLength), Rep(187, AddressLength)}

CallDatas == {<<>>, <<222, 173, 190, 239>>}

GatewayAddresses == {EntryPointAddress07, Rep(1, AddressLength), Rep(2, AddressLength)}

ChainIDs == {Big(<<b>>) : b \in 1..MaxByte} \cup {Big(<<137>>), Big(<<1, 56, 130>>)}

UintFields == {"Nonce", "PreVerificationGas", "VerificationGasLimit",
               "CallGasLimit", "MaxFeePerGas", "MaxPriorityFeePerGas"}

HalfFields == {"VerificationGasLimit", "CallGasLimit",
               "MaxFeePerGas", "MaxPriorityFeePerGas"}

HashCoveredFields == UintFields \cup {"Sender", "CallData"}

FieldVals(f) ==
    IF f = "Sender" THEN Senders
    ELSE IF f = "CallData" THEN CallDatas
    ELSE IF f \in HalfFields THEN HalfVals
    ELSE U256Vals

\* the UserOperation record (types.go is consumed as a plain struct)
MakeOp(sender, nonce, callData, vgl, cgl, pvg, maxFee, maxPrio, pm, pmData, sig) ==
    [ Sender |-> sender, Nonce |-> nonce, CallData |-> callData,
      VerificationGasLimit |-> vgl, CallGasLimit |-> cgl,
      PreVerificationGas |-> pvg,
      MaxFeePerGas |-> maxFee, MaxPriorityFeePerGas |-> maxPrio,
      Paymaster |-> pm, PaymasterData |-> pmData, Signature |-> sig ]

\* NewEntrypoint07(rpcClient, chainID)
NewEntrypoint07(chainID) == [Address |-> EntryPointAddress07, ChainID |-> chainID]

-----------------------------------------------------------------------------
(* Codec harness: PackUserOperation and GetUserOperationHash on chosen inputs *)

CodecResult(e, uop) ==
    /\ cop' = uop
    /\ centry' = e
    /\ cpacked' = PackUserOperation(uop)
    /\ chash' = GetUserOperationHash(e, uop)
    /\ UNCHANGED offCodec

\* the harness at rest (the other specifications leave it here)
CodecIdle ==
    /\ cop = MakeOp(Rep(0, AddressLength), Big(<<>>), <<>>, Big(<<>>), Big(<<>>),
                    Big(<<>>), Big(<<>>), Big(<<>>), Rep(0, AddressLength), <<>>, <<>>)
    /\ centry = NewEntrypoint07(Big(<<1>>))
    /\ cpacked = PackUserOperation(cop)
    /\ chash = GetUserOperationHash(centry, cop)

PackInit ==
    /\ cop \in {MakeOp(s, n, d, Big(<<>>), Big(<<>>), Big(<<>>), Big(<<>>), Big(<<>>),
                       Rep(0, AddressLength), <<>>, <<>>) :
                    s \in Senders, n \in {Big(<<>>)}, d \in CallDatas}
    /\ centry = NewEntrypoint07(Big(<<1>>))
    /\ cpacked = PackUserOperation(cop)
    /\ chash = GetUserOperationHash(centry, cop)

\* pack and hash the operation with one hash-covered field changed
PackSetField(f, v) ==
    /\ v # cop[f]
    /\ CodecResult(centry, [cop EXCEPT ![f] = v])

\* pack and hash the operation with the two gas limits exchanged
PackSwapGasLimits ==
    /\ cop.VerificationGasLimit # cop.CallGasLimit
    /\ CodecResult(centry,
                   [cop EXCEPT !.VerificationGasLimit = cop.CallGasLimit,
                               !.CallGasLimit = cop.VerificationGasLimit])

\* pack and hash the operation with the two fees exchanged
PackSwapFees ==
    /\ cop.MaxPriorityFeePerGas # cop.MaxFeePerGas
    /\ CodecResult(centry,
                   [cop EXCEPT !.MaxPriorityFeePerGas = cop.MaxFeePerGas,
                               !.MaxFeePerGas = cop.MaxPriorityFeePerGas])

PackNext ==
    \/ \E f \in HashCoveredFields : \E v \in FieldVals(f) : PackSetField(f, v)
    \/ PackSwapGasLimits
    \/ PackSwapFees

Paymasters == {Rep(0, AddressLength), Rep(119, AddressLength)}

PaymasterDatas == {<<>>, <<1, 2>>}

OpSignatures == {<<>>, <<27, 1>>}

PaymasterInit ==
    /\ cop \in {MakeOp(s, n, d, Big(<<195, 80>>), Big(<<117, 48>>), g,
                       Big(<<3, 232>>), Big(<<100>>),
                       Rep(0, AddressLength), <<>>, <<>>) :
                    s \in Senders, n \in U256Vals, d \in CallDatas, g \in U256Vals}
    /\ centry = NewEntrypoint07(Big(<<1>>))
    /\ cpacked = PackUserOperation(cop)
    /\ chash = GetUserOperationHash(centry, cop)

\* pack and hash the operation with another paymaster, paymaster data and
\* signature (one, two or all three of them changed)
PackSetUncovered(pm, pmData, sig) ==
    /\ <<pm, pmData, sig>> # <<cop.Paymaster, cop.PaymasterData, cop.Signature>>
    /\ CodecResult(centry, [cop EXCEPT !.Paymaster = pm, !.PaymasterData = pmData,
                                       !.Signature = sig])

PaymasterNext ==
    \E pm \in Paymasters, pmData \in PaymasterDatas, sig \in OpSignatures :
        PackSetUncovered(pm, pmData, sig)

HashInit ==
    /\ cop \in {MakeOp(s, n, d, Big(<<195, 80>>), Big(<<117, 48>>), g,
                       Big(<<3, 232>>), Big(<<100>>),
                       Rep(0, AddressLength), <<>>, <<>>) :
                    s \in Senders, n \in U256Vals, d \in CallDatas, g \in U256Vals}
    /\ centry \in {[Address |-> a, ChainID |-> c] : a \in GatewayAddresses, c \in ChainIDs}
    /\ cpacked = PackUserOperation(cop)
    /\ chash = GetUserOperationHash(centry, cop)

\* hash the same operation on a gateway with another chain ID
HashSetChainID(c) ==
    /\ c # centry.ChainID
    /\ CodecResult([centry EXCEPT !.ChainID = c], cop)

\* hash the same operation on a gateway with another EntryPoint address
HashSetAddress(a) ==
    /\ a # centry.Address
    /\ CodecResult([centry EXCEPT !.Address = a], cop)

HashNext ==
    \/ \E c \in ChainIDs : HashSetChainID(c)
    \/ \E a \in GatewayAddresses : HashSetAddress(a)


-----------------------------------------------------------------------------
(* The Client: construction *)

\* bounds on the configured polling settings tried
MaxCfgDelay == 1
MaxCfgRetries == 2

\* pollingDelaySeconds := 10 / pollingRetries := 24
DefaultPollingDelaySeconds == 10
DefaultPollingRetries == 24

NilPtr == [isNil |-> TRUE]
Ptr(v) == [isNil |-> FALSE, val |-> v]

\* a nil error
NoErr == "nil"

\* EntryPointVersion07 = "0.7"
EntryPointVersion07 == "0.7"

\* the ClientConfig values tried (RpcURL and AccountAddress are always set)
Configs ==
    [ AccountPK : {NilPtr, Ptr(<<1>>)},
      PaymasterURL : {NilPtr, Ptr("paymaster")},
      BundlerURL : {NilPtr, Ptr("bundler")},
      EntryPointVersion : {EntryPointVersion07, "0.6"},
      ChainID : {NilBig, Big(<<1>>)},
      ReceiptPollingDelaySeconds : -1..MaxCfgDelay,
      ReceiptPollingRetries : -1..MaxCfgRetries ]

\* faulty variant: the chain ID is not required
RequiredMissingNoChainID(cfg) ==
    \/ cfg.AccountPK = NilPtr
    \/ cfg.PaymasterURL = NilPtr
    \/ cfg.BundlerURL = NilPtr
    \/ cfg.EntryPointVersion # EntryPointVersion07

\* the condition of NewClient's first statement
RequiredMissing(cfg) ==
    \/ cfg.AccountPK = NilPtr
    \/ cfg.PaymasterURL = NilPtr
    \/ cfg.BundlerURL = NilPtr
    \/ cfg.EntryPointVersion # EntryPointVersion07
    \/ cfg.ChainID = NilBig

\* the configurations NewClient accepts
ValidConfigs == {cfg \in Configs : ~RequiredMissing(cfg)}

\* a configuration with every required field set
FullConfig(delay, retries) ==
    [ AccountPK |-> Ptr(<<1>>), PaymasterURL |-> Ptr("paymaster"),
      BundlerURL |-> Ptr("bundler"), EntryPointVersion |-> EntryPointVersion07,
      ChainID |-> Big(<<1>>),
      ReceiptPollingDelaySeconds |-> delay, ReceiptPollingRetries |-> retries ]

\* c.Signer.GetAddress(): the configured account address
SignerAddress == Rep(170, AddressLength)

\* faulty variant: the retries are taken from the configuration only when the
\* delay is configured
NewClientSharedCheck(cfg) ==
    LET pollingDelaySeconds ==
            IF cfg.ReceiptPollingDelaySeconds > 0
            THEN cfg.ReceiptPollingDelaySeconds ELSE DefaultPollingDelaySeconds
        pollingRetries ==
            IF cfg.ReceiptPollingDelaySeconds > 0
            THEN cfg.ReceiptPollingRetries ELSE DefaultPollingRetries
    IN  [ EntryPoint |-> NewEntrypoint07(cfg.ChainID),
          ChainID |-> cfg.ChainID,
          ReceiptPollingDelay |-> pollingDelaySeconds,
          ReceiptPollingRetries |-> pollingRetries ]

\* NewClient on its success path: the polling defaults and the Client literal
NewClient(cfg) ==
    LET pollingDelaySeconds ==
            IF cfg.ReceiptPollingDelaySeconds > 0
            THEN cfg.ReceiptPollingDelaySeconds ELSE DefaultPollingDelaySeconds
        pollingRetries ==
            IF cfg.ReceiptPollingRetries > 0
            THEN cfg.ReceiptPollingRetries ELSE DefaultPollingRetries
    IN  [ EntryPoint |-> NewEntrypoint07(cfg.ChainID),
          ChainID |-> cfg.ChainID,
          ReceiptPollingDelay |-> pollingDelaySeconds,
          ReceiptPollingRetries |-> pollingRetries ]

-----------------------------------------------------------------------------
(* Values exchanged with the collaborators *)

\* var op UserOperation
ZeroOp ==
    MakeOp(Rep(0, AddressLength), NilBig, <<>>, NilBig, NilBig, NilBig, NilBig, NilBig,
           Rep(0, AddressLength), <<>>, <<>>)

\* big.NewInt(0).SetBytes(decoded): leading zero bytes carry no value
RECURSIVE SetBytes(_)
SetBytes(b) ==
    IF b = <<>> THEN <<>>
    ELSE IF Head(b) = 0 THEN SetBytes(Tail(b)) ELSE b

\* eth_call outcomes for getNonce: a failed call, or one 32-byte word
NonceReplies ==
    {[failed |-> TRUE, hex |-> <<>>]} \cup
    {[failed |-> FALSE, hex |-> w] : w \in {Rep(0, WordLen), Rep(0, WordLen - 1) \o <<1>>}}

\* faulty variant: the decoded nonce is dropped and zero is returned
GetNonceZero(reply) ==
    IF reply.failed
    THEN [val |-> NilBig, err |-> "failed to call getNonce eth_call"]
    ELSE [val |-> Big(<<>>), err |-> NoErr]

\* EntrypointClient07.GetNonce on an eth_call outcome
GetNonce(reply) ==
    IF reply.failed
    THEN [val |-> NilBig, err |-> "failed to call getNonce eth_call"]
    ELSE [val |-> Big(SetBytes(reply.hex)), err |-> NoErr]

GasPrices ==
    { [Standard |-> [MaxFeePerGas |-> Big(<<3, 232>>), MaxPriorityFeePerGas |-> Big(<<100>>)]],
      [Standard |-> [MaxFeePerGas |-> Big(<<7, 208>>), MaxPriorityFeePerGas |-> Big(<<200>>)]] }

SponsorResponses ==
    { [ Paymaster |-> Rep(0, AddressLength), PaymasterData |-> <<>>,
        PreVerificationGas |-> Big(<<82, 8>>),
        VerificationGasLimit |-> Big(<<195, 80>>),
        CallGasLimit |-> Big(<<117, 48>>) ],
      [ Paymaster |-> Rep(119, AddressLength), PaymasterData |-> <<1, 2>>,
        PreVerificationGas |-> Big(<<1>>),
        VerificationGasLimit |-> Big(<<2>>),
        CallGasLimit |-> Big(<<3>>) ] }

Signatures == {<<27, 1>>}

\* identifiers the bundler returns for a submission
OperationIds == {<<7>>}

Receipts == {[success |-> TRUE]}

\* pre-signed operations handed to SendSignedUserOperation
SignedOps ==
    { MakeOp(s, Big(<<1>>), <<222, 173, 190, 239>>, Big(<<2>>), Big(<<3>>), Big(<<1>>),
             Big(<<3, 232>>), Big(<<100>>), Rep(0, AddressLength), <<>>, <<27, 1>>) :
        s \in Senders }

-----------------------------------------------------------------------------
(* The Client: one invocation *)

Entry(name, status, arg, res) ==
    [name |-> name, status |-> status, arg |-> arg, res |-> res]

NoRet == [op |-> NilPtr, hash |-> NilPtr, result |-> NilPtr, err |-> "running"]

NoPoll == [attempts |-> 0, elapsed |-> 0]

ClientInit ==
    /\ config \in ValidConfigs
    /\ client = NewClient(config)
    /\ api = "none"
    /\ args = [sender |-> Rep(0, AddressLength), callData |-> <<>>, waitForReceipt |-> FALSE]
    /\ pc = "idle"
    /\ op = ZeroOp
    /\ opHash = NilPtr
    /\ response = <<>>
    /\ calls = <<>>
    /\ poll = NoPoll
    /\ ret = NoRet

\* a fresh invocation: nothing of the previous one is kept
Begin(name, a, firstOp, firstPc) ==
    /\ api' = name
    /\ args' = a
    /\ op' = firstOp
    /\ pc' = firstPc
    /\ opHash' = NilPtr
    /\ response' = <<>>
    /\ calls' = <<>>
    /\ poll' = NoPoll
    /\ ret' = NoRet
    /\ UNCHANGED <<client, offClient>>

CallGetUserOperationAndHashToSign(sender, callData) ==
    /\ pc \in {"idle", "done"}
    /\ Begin("GetUserOperationAndHashToSign",
             [sender |-> sender, callData |-> callData, waitForReceipt |-> FALSE],
             ZeroOp, "GetNonce")

\* SendUserOperation builds for c.Signer.GetAddress()
CallSendUserOperation(callData, waitForReceipt) ==
    /\ pc \in {"idle", "done"}
    /\ Begin("SendUserOperation",
             [sender |-> SignerAddress, callData |-> callData,
              waitForReceipt |-> waitForReceipt],
             ZeroOp, "GetNonce")

CallSendSignedUserOperation(signedOp, waitForReceipt) ==
    /\ pc \in {"idle", "done"}
    /\ Begin("SendSignedUserOperation",
             [sender |-> signedOp.Sender, callData |-> signedOp.CallData,
              waitForReceipt |-> waitForReceipt],
             signedOp, "SendUserOperation")

\* faulty variant: the partly built operation is returned with the error
BuildFailurePartial(o, err) ==
    [op |-> Ptr(o), hash |-> NilPtr, result |-> NilPtr, err |-> err]

\* return nil, nil, err (and SendUserOperation's return nil, err on top of it)
BuildFailure(o, err) ==
    [op |-> NilPtr, hash |-> NilPtr, result |-> NilPtr, err |-> err]

\* a step failed: the method returns its error
Abort(name, arg, err) ==
    /\ calls' = Append(calls, Entry(name, "err", arg, err))
    /\ ret' = BuildFailure(op, err)
    /\ pc' = "done"
    /\ UNCHANGED <<client, api, args, op, opHash, response, poll>>

\* faulty variant: the error of GetNonce is not checked
GetNonceStepNoAbort ==
    /\ pc = "GetNonce"
    /\ UNCHANGED offClient
    /\ \E reply \in NonceReplies :
         LET r == GetNonce(reply)
         IN  /\ calls' = Append(calls, Entry("GetNonce",
                                  IF r.err = NoErr THEN "ok" ELSE "err", args.sender,
                                  IF r.err = NoErr THEN r.val ELSE r.err))
             /\ op' = [op EXCEPT !.Sender = args.sender, !.Nonce = r.val,
                                 !.CallData = args.callData]
             /\ pc' = "GetUserOperationGasPrice"
             /\ UNCHANGED <<client, api, args, opHash, response, poll, ret>>

\* nonce, err := c.EntryPoint.GetNonce(sender); op.Sender, op.Nonce, op.CallData
GetNonceStep ==
    /\ pc = "GetNonce"
    /\ UNCHANGED offClient
    /\ \E reply \in NonceReplies :
         LET r == GetNonce(reply)
         IN  IF r.err # NoErr
             THEN Abort("GetNonce", args.sender, r.err)
             ELSE /\ calls' = Append(calls, Entry("GetNonce", "ok", args.sender, r.val))
                  /\ op' = [op EXCEPT !.Sender = args.sender, !.Nonce = r.val,
                                      !.CallData = args.callData]
                  /\ pc' = "GetUserOperationGasPrice"
                  /\ UNCHANGED <<client, api, args, opHash, response, poll, ret>>

\* op.MaxFeePerGas, op.MaxPriorityFeePerGas from the standard tier
ApplyGasPrice(o, gasPrice) ==
    [o EXCEPT !.MaxFeePerGas = gasPrice.Standard.MaxFeePerGas,
              !.MaxPriorityFeePerGas = gasPrice.Standard.MaxPriorityFeePerGas]

\* gasPrice, err := c.BundlerClient.GetUserOperationGasPrice()
GasPriceStep ==
    /\ pc = "GetUserOperationGasPrice"
    /\ UNCHANGED offClient
    /\ \/ Abort("GetUserOperationGasPrice", <<>>, "gas price failed")
       \/ \E gasPrice \in GasPrices :
            /\ calls' = Append(calls, Entry("GetUserOperationGasPrice", "ok", <<>>, gasPrice))
            /\ op' = ApplyGasPrice(op, gasPrice)
            /\ pc' = "SponsorUserOperation"
            /\ UNCHANGED <<client, api, args, opHash, response, poll, ret>>

\* faulty variant: CallGasLimit is taken from VerificationGasLimit
ApplySponsorResponseCopyPaste(o, sponsorResponse) ==
    [o EXCEPT !.Paymaster = sponsorResponse.Paymaster,
              !.PaymasterData = sponsorResponse.PaymasterData,
              !.PreVerificationGas = sponsorResponse.PreVerificationGas,
              !.VerificationGasLimit = sponsorResponse.VerificationGasLimit,
              !.CallGasLimit = sponsorResponse.VerificationGasLimit]

\* the five assignments from sponsorResponse
ApplySponsorResponse(o, sponsorResponse) ==
    [o EXCEPT !.Paymaster = sponsorResponse.Paymaster,
              !.PaymasterData = sponsorResponse.PaymasterData,
              !.PreVerificationGas = sponsorResponse.PreVerificationGas,
              !.VerificationGasLimit = sponsorResponse.VerificationGasLimit,
              !.CallGasLimit = sponsorResponse.CallGasLimit]

\* sponsorResponse, err := c.PaymasterClient.SponsorUserOperation(&op)
SponsorStep ==
    /\ pc = "SponsorUserOperation"
    /\ UNCHANGED offClient
    /\ \/ Abort("SponsorUserOperation", op, "sponsorship failed")
       \/ \E sponsorResponse \in SponsorResponses :
            /\ calls' = Append(calls, Entry("SponsorUserOperation", "ok", op, sponsorResponse))
            /\ op' = ApplySponsorResponse(op, sponsorResponse)
            /\ pc' = "GetUserOperationHash"
            /\ UNCHANGED <<client, api, args, opHash, response, poll, ret>>

\* opHash, err := c.EntryPoint.GetUserOperationHash(&op); return &op, opHash, nil
HashStep ==
    /\ pc = "GetUserOperationHash"
    /\ UNCHANGED offClient
    /\ \/ Abort("GetUserOperationHash", op, "failed to pack user operation")
       \/ LET h == GetUserOperationHash(client.EntryPoint, op)
          IN  /\ calls' = Append(calls, Entry("GetUserOperationHash", "ok", op, h))
              /\ IF api = "SendUserOperation"
                 THEN /\ opHash' = Ptr(h)
                      /\ pc' = "SignUserOperationHash"
                      /\ UNCHANGED ret
                 ELSE /\ ret' = [op |-> Ptr(op), hash |-> Ptr(h),
                                 result |-> NilPtr, err |-> NoErr]
                      /\ pc' = "done"
                      /\ UNCHANGED opHash
              /\ UNCHANGED <<client, api, args, op, response, poll>>

\* faulty variant: the error of SignUserOperationHash is not checked
SignStepNoAbort ==
    /\ pc = "SignUserOperationHash"
    /\ UNCHANGED offClient
    /\ \/ /\ calls' = Append(calls, Entry("SignUserOperationHash", "err", opHash.val,
                                          "signing failed"))
          /\ pc' = "SendUserOperation"
          /\ UNCHANGED <<client, api, args, op, opHash, response, poll, ret>>
       \/ \E signature \in Signatures :
            /\ calls' = Append(calls,
                               Entry("SignUserOperationHash", "ok", opHash.val, signature))
            /\ op' = [op EXCEPT !.Signature = signature]
            /\ pc' = "SendUserOperation"
            /\ UNCHANGED <<client, api, args, opHash, response, poll, ret>>

\* faulty variant: the signature is not stored in the operation
SignStepDropsSignature ==
    /\ pc = "SignUserOperationHash"
    /\ UNCHANGED offClient
    /\ \/ Abort("SignUserOperationHash", opHash.val, "signing failed")
       \/ \E signature \in Signatures :
            /\ calls' = Append(calls,
                               Entry("SignUserOperationHash", "ok", opHash.val, signature))
            /\ pc' = "SendUserOperation"
            /\ UNCHANGED <<client, api, args, op, opHash, response, poll, ret>>

\* signature, err := c.Signer.SignUserOperationHash(*opHash); op.Signature = signature
SignStep ==
    /\ pc = "SignUserOperationHash"
    /\ UNCHANGED offClient
    /\ \/ Abort("SignUserOperationHash", opHash.val, "signing failed")
       \/ \E signature \in Signatures :
            /\ calls' = Append(calls,
                               Entry("SignUserOperationHash", "ok", opHash.val, signature))
            /\ op' = [op EXCEPT !.Signature = signature]
            /\ pc' = "SendUserOperation"
            /\ UNCHANGED <<client, api, args, opHash, response, poll, ret>>

\* faulty variant: delay and retries are passed in each other's place
PollArgsSwapped(c, id) ==
    [id |-> id, delay |-> c.ReceiptPollingRetries, retries |-> c.ReceiptPollingDelay]

\* the arguments of c.BundlerClient.GetUserOperationReceipt
PollArgs(c, id) ==
    [id |-> id, delay |-> c.ReceiptPollingDelay, retries |-> c.ReceiptPollingRetries]

\* faulty variant: the error of the receipt poll is returned
SendSignedResultSurfacing(resp, receipt, pollErr) ==
    IF pollErr # NoErr
    THEN [op |-> NilPtr, hash |-> NilPtr, result |-> NilPtr, err |-> pollErr]
    ELSE [op |-> NilPtr, hash |-> NilPtr,
          result |-> Ptr([UserOperationHash |-> resp, Receipt |-> receipt]),
          err |-> NoErr]

\* receipt, _ = ...; return &UserOperationResult{response, receipt}, nil
SendSignedResult(resp, receipt, pollErr) ==
    [op |-> NilPtr, hash |-> NilPtr,
     result |-> Ptr([UserOperationHash |-> resp, Receipt |-> receipt]),
     err |-> NoErr]

\* faulty variant: the receipt is polled for whether or not waiting was asked for
SubmitStepAlwaysWaits ==
    /\ pc = "SendUserOperation"
    /\ UNCHANGED offClient
    /\ \/ Abort("SendUserOperation", op, "submission failed")
       \/ \E id \in OperationIds :
            /\ response' = id
            /\ calls' = Append(Append(calls, Entry("SendUserOperation", "ok", op, id)),
                               Entry("GetUserOperationReceipt", "pending",
                                     PollArgs(client, id), NilPtr))
            /\ pc' = "GetUserOperationReceipt"
            /\ UNCHANGED <<client, api, args, op, opHash, poll, ret>>

\* response, err := c.BundlerClient.SendUserOperation(signedOp), and what follows
SubmitStep ==
    /\ pc = "SendUserOperation"
    /\ UNCHANGED offClient
    /\ \/ Abort("SendUserOperation", op, "submission failed")
       \/ \E id \in OperationIds :
            /\ response' = id
            /\ IF args.waitForReceipt
               THEN /\ calls' = Append(Append(calls, Entry("SendUserOperation", "ok", op, id)),
                                       Entry("GetUserOperationReceipt", "pending",
                                             PollArgs(client, id), NilPtr))
                    /\ pc' = "GetUserOperationReceipt"
                    /\ UNCHANGED ret
               ELSE /\ calls' = Append(calls, Entry("SendUserOperation", "ok", op, id))
                    /\ ret' = SendSignedResult(id, NilPtr, NoErr)
                    /\ pc' = "done"
            /\ UNCHANGED <<client, api, args, op, opHash, poll>>

\* the operation results handed to Client.GetUserOperationReceipt
UserOperationResults ==
    {[UserOperationHash |-> id, Receipt |-> NilPtr] : id \in OperationIds \cup {<<9>>}}

\* faulty variant: the error of the receipt poll is dropped
GetReceiptResultSwallowing(receipt, err) ==
    [op |-> NilPtr, hash |-> NilPtr, result |-> NilPtr, receipt |-> receipt, err |-> NoErr]

\* return c.BundlerClient.GetUserOperationReceipt(...)
GetReceiptResult(receipt, err) ==
    [op |-> NilPtr, hash |-> NilPtr, result |-> NilPtr, receipt |-> receipt, err |-> err]

\* Client.GetUserOperationReceipt(result): its one collaborator call
CallGetUserOperationReceipt(result) ==
    /\ pc \in {"idle", "done"}
    /\ api' = "GetUserOperationReceipt"
    /\ args' = [sender |-> Rep(0, AddressLength), callData |-> <<>>,
                waitForReceipt |-> FALSE, result |-> result]
    /\ calls' = << Entry("GetUserOperationReceipt", "pending",
                         PollArgs(client, result.UserOperationHash), NilPtr) >>
    /\ pc' = "GetUserOperationReceipt"
    /\ op' = ZeroOp
    /\ opHash' = NilPtr
    /\ response' = <<>>
    /\ poll' = NoPoll
    /\ ret' = NoRet
    /\ UNCHANGED <<client, offClient>>

\* BundlerClient.GetUserOperationReceipt returned to the method that called it
PollReturn(receipt, err) ==
    /\ calls' = [calls EXCEPT ![Len(calls)].status = IF err = NoErr THEN "ok" ELSE "err",
                              ![Len(calls)].res = IF err = NoErr THEN receipt ELSE err]
    /\ ret' = IF api = "GetUserOperationReceipt"
              THEN GetReceiptResult(receipt, err)
              ELSE SendSignedResult(response, receipt, err)
    /\ pc' = "done"
    /\ UNCHANGED <<client, api, args, op, opHash, response, poll>>

\* BundlerClient.GetUserOperationReceipt(hash, delay, retries): ask, and sleep
\* the delay after an attempt that found nothing, at most retries times
PollAttempt ==
    /\ pc = "GetUserOperationReceipt"
    /\ UNCHANGED offClient
    /\ poll.attempts < calls[Len(calls)].arg.retries
    /\ \/ \E receipt \in Receipts : PollReturn(Ptr(receipt), NoErr)
       \/ PollReturn(NilPtr, "receipt request failed")
       \/ /\ poll' = [attempts |-> poll.attempts + 1,
                      elapsed |-> poll.elapsed + calls[Len(calls)].arg.delay]
          /\ UNCHANGED <<client, api, args, pc, op, opHash, response, calls, ret>>

\* the retries are used up
PollExhausted ==
    /\ pc = "GetUserOperationReceipt"
    /\ UNCHANGED offClient
    /\ poll.attempts >= calls[Len(calls)].arg.retries
    /\ PollReturn(NilPtr, "receipt not found")

PollStep == PollAttempt \/ PollExhausted

Next ==
    \/ \E s \in Senders, d \in CallDatas : CallGetUserOperationAndHashToSign(s, d)
    \/ \E d \in CallDatas, w \in BOOLEAN : CallSendUserOperation(d, w)
    \/ \E o \in SignedOps, w \in BOOLEAN : CallSendSignedUserOperation(o, w)
    \/ \E r \in UserOperationResults : CallGetUserOperationReceipt(r)
    \/ GetNonceStep
    \/ GasPriceStep
    \/ SponsorStep
    \/ HashStep
    \/ SignStep
    \/ SubmitStep
    \/ PollAttempt
    \/ PollExhausted

-----------------------------------------------------------------------------
(* The Client: NewClient, statement by statement, and Close *)

ConnNames == {"Network", "Paymaster", "Bundler"}

NoConns == [n \in ConnNames |-> "none"]

\* rpc.Dial succeeded / failed for one connection
Dialed(cs, n, ok) == [cs EXCEPT ![n] = IF ok THEN "open" ELSE "failed"]

\* (*rpc.Client).Close(): closing a closed connection leaves it closed
CloseConn(cs, n) == [cs EXCEPT ![n] = "closed"]

\* the three Close calls of the four initialisation failure branches
CloseAfterInitFailure(cs) ==
    CloseConn(CloseConn(CloseConn(cs, "Network"), "Paymaster"), "Network")

\* return nil, err
NewClientFail(cs, err) ==
    /\ conns' = cs
    /\ nret' = [client |-> NilPtr, err |-> err]
    /\ npc' = "done"
    /\ UNCHANGED <<config, offNew>>

\* the statement succeeded: go on with the next one
NewClientGoto(cs, next) ==
    /\ conns' = cs
    /\ npc' = next
    /\ UNCHANGED <<config, nret, offNew>>

\* if config.AccountPK == nil || ... { return nil, errors.New(...) }
CheckConfig ==
    /\ npc = "CheckConfig"
    /\ IF RequiredMissing(config)
       THEN NewClientFail(conns, "accountPK, paymasterURL, bundlerURL, entryPointVersion and chainID are required")
       ELSE NewClientGoto(conns, "DialNetwork")

\* networkRpc, err := rpc.Dial(config.RpcURL.String())
DialNetwork ==
    /\ npc = "DialNetwork"
    /\ \/ NewClientFail(Dialed(conns, "Network", FALSE), "failed to connect to RPC")
       \/ NewClientGoto(Dialed(conns, "Network", TRUE), "DialPaymaster")

\* paymasterRpc, err := rpc.Dial(config.PaymasterURL.String())
DialPaymaster ==
    /\ npc = "DialPaymaster"
    /\ \/ NewClientFail(CloseConn(Dialed(conns, "Paymaster", FALSE), "Network"),
                        "failed to connect to Paymaster")
       \/ NewClientGoto(Dialed(conns, "Paymaster", TRUE), "DialBundler")

\* bundleRpc, err := rpc.Dial(config.BundlerURL.String())
DialBundler ==
    /\ npc = "DialBundler"
    /\ \/ NewClientFail(CloseConn(CloseConn(Dialed(conns, "Bundler", FALSE), "Paymaster"),
                                  "Network"),
                        "failed to connect to Bundler")
       \/ NewClientGoto(Dialed(conns, "Bundler", TRUE), "NewEntrypoint07")

\* entrypoint, err := NewEntrypoint07(networkRpc, config.ChainID): it fails only
\* if the ABI constant of the package does not parse, which it does
InitEntrypoint ==
    /\ npc = "NewEntrypoint07"
    /\ NewClientGoto(conns, "NewPaymasterClient")

\* paymasterClient, err := NewPaymasterClient(paymasterRpc, entrypoint, config.ChainID)
InitPaymasterClient ==
    /\ npc = "NewPaymasterClient"
    /\ \/ NewClientFail(CloseAfterInitFailure(conns), "failed to initialize paymasterClient")
       \/ NewClientGoto(conns, "NewBundlerClient")

\* bundlerClient, err := NewBundlerClient(bundleRpc, entrypoint, config.ChainID)
InitBundlerClient ==
    /\ npc = "NewBundlerClient"
    /\ \/ NewClientFail(CloseAfterInitFailure(conns), "failed to initialize bundlerClient")
       \/ NewClientGoto(conns, "NewSmartAccountPrivateKeySigner")

\* signer, err := account.NewSmartAccountPrivateKeySigner(...), then the polling
\* defaults and return &Client{...}, nil
InitSigner ==
    /\ npc = "NewSmartAccountPrivateKeySigner"
    /\ \/ NewClientFail(CloseAfterInitFailure(conns), "failed to initialize signer")
       \/ /\ nret' = [client |-> Ptr(NewClient(config)), err |-> NoErr]
          /\ npc' = "done"
          /\ UNCHANGED <<config, conns, offNew>>

\* func (c *Client) Close()
ClientClose ==
    /\ npc = "done"
    /\ nret.err = NoErr
    /\ conns' = CloseConn(CloseConn(CloseConn(conns, "Network"), "Paymaster"), "Bundler")
    /\ npc' = "closed"
    /\ UNCHANGED <<config, nret, offNew>>

NewInit ==
    /\ config \in Configs
    /\ npc = "CheckConfig"
    /\ conns = NoConns
    /\ nret = [client |-> NilPtr, err |-> "running"]

\* the state NewClient leaves behind when it returned the Client
Constructed ==
    /\ npc = "done"
    /\ conns = [n \in ConnNames |-> "open"]
    /\ nret = [client |-> Ptr(NewClient(config)), err |-> NoErr]

NewNext ==
    \/ CheckConfig
    \/ DialNetwork
    \/ DialPaymaster
    \/ DialBundler
    \/ InitEntrypoint
    \/ InitPaymasterClient
    \/ InitBundlerClient
    \/ InitSigner
    \/ ClientClose

-----------------------------------------------------------------------------
(* Several invocations running at once on the one Client *)

\* two invocations, each on its own goroutine
Procs == {1, 2}

\* the collaborator responses an invocation has received so far
NoSeen == [nonce |-> NilPtr, gasPrice |-> NilPtr, sponsor |-> NilPtr, signature |-> NilPtr]

\* an invocation that has not been called yet
NoInv ==
    [ api |-> "none",
      args |-> [sender |-> Rep(0, AddressLength), callData |-> <<>>],
      pc |-> "idle", op |-> ZeroOp, opHash |-> NilPtr,
      seen |-> NoSeen, fetchedAt |-> 0, ret |-> NoRet ]

\* the 32-byte word the contract's getNonce returns (key 0, sequence n)
NonceWord(n) == LeftPadBytes(IF n = 0 THEN <<>> ELSE <<n>>, WordLen)

\* faulty variant: the operation is one buffer shared by all invocations
SetInvShared(p, r) ==
    inv' = [q \in Procs |-> IF q = p THEN r ELSE [inv[q] EXCEPT !.op = r.op]]

\* an invocation changes its own locals only (var op UserOperation is a local)
SetInv(p, r) == inv' = [inv EXCEPT ![p] = r]

\* the invocation returns an error
ConcAbort(p, err) ==
    /\ SetInv(p, [inv[p] EXCEPT !.ret = BuildFailure(inv[p].op, err), !.pc = "done"])
    /\ UNCHANGED <<chainNonce, pending, offConc>>

\* the invocation goes on with changed locals
ConcGoto(p, r) ==
    /\ SetInv(p, r)
    /\ UNCHANGED <<chainNonce, pending, offConc>>

\* GetUserOperationAndHashToSign(sender, callData) or, with the signer's
\* address as sender, SendUserOperation(callData, false) is called
ConcCall(p, name, sender, callData) ==
    /\ inv[p].pc = "idle"
    /\ ConcGoto(p, [NoInv EXCEPT !.api = name,
                                 !.args = [sender |-> sender, callData |-> callData],
                                 !.pc = "GetNonce"])

ConcGetNonce(p) ==
    /\ inv[p].pc = "GetNonce"
    /\ \E reply \in { [failed |-> TRUE, hex |-> <<>>],
                       [failed |-> FALSE, hex |-> NonceWord(chainNonce)] } :
         LET r == GetNonce(reply)
         IN  IF r.err # NoErr
             THEN ConcAbort(p, r.err)
             ELSE ConcGoto(p, [inv[p] EXCEPT
                      !.op = [inv[p].op EXCEPT !.Sender = inv[p].args.sender,
                                               !.Nonce = r.val,
                                               !.CallData = inv[p].args.callData],
                      !.seen.nonce = Ptr(r.val),
                      !.fetchedAt = chainNonce,
                      !.pc = "GetUserOperationGasPrice"])

ConcGasPrice(p) ==
    /\ inv[p].pc = "GetUserOperationGasPrice"
    /\ \/ ConcAbort(p, "gas price failed")
       \/ \E gasPrice \in GasPrices :
            ConcGoto(p, [inv[p] EXCEPT !.op = ApplyGasPrice(inv[p].op, gasPrice),
                                      !.seen.gasPrice = Ptr(gasPrice),
                                      !.pc = "SponsorUserOperation"])

ConcSponsor(p) ==
    /\ inv[p].pc = "SponsorUserOperation"
    /\ \/ ConcAbort(p, "sponsorship failed")
       \/ \E sponsorResponse \in SponsorResponses :
            ConcGoto(p, [inv[p] EXCEPT
                            !.op = ApplySponsorResponse(inv[p].op, sponsorResponse),
                            !.seen.sponsor = Ptr(sponsorResponse),
                            !.pc = "GetUserOperationHash"])

ConcHash(p) ==
    /\ inv[p].pc = "GetUserOperationHash"
    /\ \/ ConcAbort(p, "failed to pack user operation")
       \/ LET h == GetUserOperationHash(client.EntryPoint, inv[p].op)
          IN  IF inv[p].api = "SendUserOperation"
              THEN ConcGoto(p, [inv[p] EXCEPT !.opHash = Ptr(h),
                                             !.pc = "SignUserOperationHash"])
              ELSE ConcGoto(p, [inv[p] EXCEPT
                                   !.ret = [op |-> Ptr(inv[p].op), hash |-> Ptr(h),
                                            result |-> NilPtr, err |-> NoErr],
                                   !.pc = "done"])

ConcSign(p) ==
    /\ inv[p].pc = "SignUserOperationHash"
    /\ \/ ConcAbort(p, "signing failed")
       \/ \E signature \in Signatures :
            ConcGoto(p, [inv[p] EXCEPT !.op = [inv[p].op EXCEPT !.Signature = signature],
                                      !.seen.signature = Ptr(signature),
                                      !.pc = "SendUserOperation"])

\* the bundler accepts the operation, or refuses it
ConcSubmit(p) ==
    /\ inv[p].pc = "SendUserOperation"
    /\ \/ ConcAbort(p, "submission failed")
       \/ \E id \in OperationIds :
            /\ SetInv(p, [inv[p] EXCEPT !.ret = SendSignedResult(id, NilPtr, NoErr),
                                        !.pc = "done"])
            /\ pending' = pending \cup {inv[p].op}
            /\ UNCHANGED <<chainNonce, offConc>>

\* the chain executes an accepted operation whose nonce is the account's
\* current one: only this advances the nonce
ChainExecute ==
    \E o \in pending :
        /\ o.Nonce = Big(SetBytes(NonceWord(chainNonce)))
        /\ chainNonce' = chainNonce + 1
        /\ pending' = pending \ {o}
        /\ UNCHANGED <<inv, offConc>>

ConcInit ==
    /\ inv = [p \in Procs |-> NoInv]
    /\ chainNonce = 0
    /\ pending = {}

ConcNext ==
    \/ \E p \in Procs, d \in CallDatas :
         ConcCall(p, "GetUserOperationAndHashToSign", SignerAddress, d)
    \/ \E p \in Procs, d \in CallDatas :
         ConcCall(p, "SendUserOperation", SignerAddress, d)
    \/ \E p \in Procs : ConcGetNonce(p)
    \/ \E p \in Procs : ConcGasPrice(p)
    \/ \E p \in Procs : ConcSponsor(p)
    \/ \E p \in Procs : ConcHash(p)
    \/ \E p \in Procs : ConcSign(p)
    \/ \E p \in Procs : ConcSubmit(p)
    \/ ChainExecute

-----------------------------------------------------------------------------
(* Specifications *)

vars == <<cvars, ovars, nvars, kvars>>

Init == ClientInit /\ CodecIdle /\ Constructed /\ ConcInit

\* the Client at rest (the codec specifications leave it here)
ClientIdle ==
    /\ ClientInit
    /\ config = FullConfig(0, 0)

InitPack == PackInit /\ ClientIdle /\ Constructed /\ ConcInit

InitHash == HashInit /\ ClientIdle /\ Constructed /\ ConcInit

\* a Client on which no method has been called yet
InitConc == ConcInit /\ ClientIdle /\ Constructed /\ CodecIdle

InitPaymaster == PaymasterInit /\ ClientIdle /\ Constructed /\ ConcInit

\* before NewClient is called, the pipeline variables at rest
InitNew ==
    /\ NewInit
    /\ CodecIdle
    /\ client = NewClient(FullConfig(0, 0))
    /\ api = "none"
    /\ args = [sender |-> Rep(0, AddressLength), callData |-> <<>>, waitForReceipt |-> FALSE]
    /\ pc = "idle"
    /\ op = ZeroOp
    /\ opHash = NilPtr
    /\ response = <<>>
    /\ calls = <<>>
    /\ poll = NoPoll
    /\ ret = NoRet
    /\ ConcInit

\* the pipeline of one Client
Spec == Init /\ [][Next]_vars

\* the same, with a receipt poll that keeps running once it has started
FairSpec == Spec /\ WF_vars(PollStep)

\* PackUserOperation / GetUserOperationHash on chosen operations
SpecPack == InitPack /\ [][PackNext]_vars

\* GetUserOperationHash on chosen gateways
SpecHash == InitHash /\ [][HashNext]_vars

\* PackUserOperation / GetUserOperationHash on operations that differ in
\* their paymaster fields and signature
SpecPaymaster == InitPaymaster /\ [][PaymasterNext]_vars

\* two invocations interleaved on one Client, and the chain they talk to
SpecConc == InitConc /\ [][ConcNext]_vars

\* one call of NewClient, and Close on the Client it returned
SpecNew == InitNew /\ [][NewNext]_vars

-----------------------------------------------------------------------------
(* Properties of the pipeline *)

\* the collaborator calls of SendUserOperation, in their order
CallOrder ==
    << "GetNonce", "GetUserOperationGasPrice", "SponsorUserOperation",
       "GetUserOperationHash", "SignUserOperationHash", "SendUserOperation",
       "GetUserOperationReceipt" >>

Called(name) == \E i \in 1..Len(calls) : calls[i].name = name

CallOf(name) == calls[CHOOSE i \in 1..Len(calls) : calls[i].name = name]

\* the calls made so far are the first ones of CallOrder, at most limit of
\* them, each made once and only after all earlier ones succeeded, and the
\* call about to be made is the next one
InOrder(limit) ==
    LET n == Len(calls)
    IN  /\ n <= limit
        /\ \A i \in 1..n :
             /\ calls[i].name = CallOrder[i]
             /\ i < n => calls[i].status = "ok"
        /\ pc \notin {"idle", "done"} =>
             IF n > 0 /\ calls[n].status = "pending"
             THEN pc = calls[n].name
             ELSE pc = CallOrder[n + 1]

\* C1: SendUserOperation calls GetNonce, GetUserOperationGasPrice,
\* SponsorUserOperation, GetUserOperationHash, SignUserOperationHash,
\* SendUserOperation and (only when waiting was asked for)
\* GetUserOperationReceipt in this order, each at most once and each only
\* after every earlier call succeeded; GetUserOperationAndHashToSign makes
\* the first four, and exactly those four when it succeeds.
C1_CallOrder ==
    /\ api = "SendUserOperation" =>
         /\ InOrder(7)
         /\ Called("GetUserOperationReceipt") => args.waitForReceipt
    /\ api = "GetUserOperationAndHashToSign" =>
         /\ InOrder(4)
         /\ (pc = "done" /\ ret.err = NoErr) =>
              (Len(calls) = 4 /\ calls[4].status = "ok")

C1_Witness ==
    /\ api = "SendUserOperation"
    /\ pc = "done"
    /\ Len(calls) = 7
    /\ calls[7].status = "ok"

\* C2: when a step of GetUserOperationAndHashToSign fails, the call returns
\* the error of that step with a nil operation and a nil hash, and the
\* failed step is the last collaborator call made.
C2_FailureReturnsNothing ==
    (api = "GetUserOperationAndHashToSign" /\ pc = "done" /\ ret.err # NoErr) =>
        LET n == Len(calls)
        IN  /\ n \in 1..4
            /\ calls[n].name = CallOrder[n]
            /\ calls[n].status = "err"
            /\ ret.err = calls[n].res
            /\ ret.op = NilPtr
            /\ ret.hash = NilPtr
            /\ \A i \in 1..(n - 1) : calls[i].status = "ok"

C2_Witness ==
    /\ api = "GetUserOperationAndHashToSign"
    /\ pc = "done"
    /\ Len(calls) = 3
    /\ calls[3].status = "err"
    /\ ret.err = "sponsorship failed"

\* C3: when GetUserOperationAndHashToSign succeeds, the operation returned is
\* the one that was hashed; its gas limits, paymaster and paymaster data are
\* those of the sponsorship response, and its sender, call data, nonce and
\* fees are the caller's, the fetched nonce and the standard-tier fees.
C3_SponsorshipOverrides ==
    (api = "GetUserOperationAndHashToSign" /\ pc = "done" /\ ret.err = NoErr) =>
        LET o == ret.op.val
            nonce == calls[1].res
            gasPrice == calls[2].res
            sponsorResponse == calls[3].res
        IN  /\ calls[4].arg = o
            /\ ret.hash = Ptr(calls[4].res)
            /\ o.PreVerificationGas = sponsorResponse.PreVerificationGas
            /\ o.VerificationGasLimit = sponsorResponse.VerificationGasLimit
            /\ o.CallGasLimit = sponsorResponse.CallGasLimit
            /\ o.Paymaster = sponsorResponse.Paymaster
            /\ o.PaymasterData = sponsorResponse.PaymasterData
            /\ o.Sender = args.sender
            /\ o.CallData = args.callData
            /\ o.Nonce = nonce
            /\ o.MaxFeePerGas = gasPrice.Standard.MaxFeePerGas
            /\ o.MaxPriorityFeePerGas = gasPrice.Standard.MaxPriorityFeePerGas

C3_Witness ==
    /\ api = "GetUserOperationAndHashToSign"
    /\ pc = "done"
    /\ ret.err = NoErr
    /\ calls[3].arg.CallGasLimit # ret.op.val.CallGasLimit
    /\ ret.op.val.CallGasLimit = Big(<<3>>)

\* C4: in SendUserOperation the hash that is signed is the hash computed, and
\* between hashing and submission only Signature changes: the operation
\* submitted is the hashed one with the signature that SignUserOperationHash
\* returned, its sender is the signer's address, and it hashes to the hash
\* that was signed.
C4_SubmittedMatchesSignedHash ==
    api = "SendUserOperation" =>
        LET n == Len(calls)
        IN  /\ pc = "SignUserOperationHash" =>
                 (op = calls[4].arg /\ opHash = Ptr(calls[4].res))
            /\ (n >= 5 /\ calls[5].status = "ok") => calls[5].arg = calls[4].res
            /\ pc = "SendUserOperation" =>
                 op = [calls[4].arg EXCEPT !.Signature = calls[5].res]
            /\ n >= 6 =>
                 LET submitted == calls[6].arg
                 IN  /\ submitted = [calls[4].arg EXCEPT !.Signature = calls[5].res]
                     /\ submitted.Sender = SignerAddress
                     /\ submitted.Signature = calls[5].res
                     /\ GetUserOperationHash(client.EntryPoint, submitted) = calls[5].arg

C4_Witness ==
    /\ api = "SendUserOperation"
    /\ Len(calls) >= 6
    /\ calls[6].status = "ok"
    /\ calls[6].arg.Signature = <<27, 1>>

\* C9: after the bundler accepted the submission, a failed or exhausted
\* receipt poll is not reported: the call returns a nil error and a result
\* with the bundler's identifier and no receipt.  A failed submission returns
\* the bundler's error and no result, and no receipt is asked for.
C9_PollFailureSwallowed ==
    (pc = "done" /\ Called("SendUserOperation")) =>
        LET sent == CallOf("SendUserOperation")
        IN  /\ sent.status = "err" =>
                 /\ ret.err = sent.res
                 /\ ret.result = NilPtr
                 /\ ~Called("GetUserOperationReceipt")
            /\ (sent.status = "ok" /\ args.waitForReceipt) =>
                 /\ Called("GetUserOperationReceipt")
                 /\ CallOf("GetUserOperationReceipt").status = "err" =>
                      /\ ret.err = NoErr
                      /\ ret.result = Ptr([UserOperationHash |-> sent.res,
                                           Receipt |-> NilPtr])

C9_Witness ==
    /\ api = "SendSignedUserOperation"
    /\ pc = "done"
    /\ args.waitForReceipt
    /\ Called("GetUserOperationReceipt")
    /\ CallOf("GetUserOperationReceipt").status = "err"
    /\ CallOf("GetUserOperationReceipt").res = "receipt request failed"

\* the poll ended because no attempt found a receipt
PollRanOut ==
    /\ pc = "done"
    /\ Called("SendUserOperation")
    /\ Called("GetUserOperationReceipt")
    /\ CallOf("GetUserOperationReceipt").status = "err"
    /\ CallOf("GetUserOperationReceipt").res = "receipt not found"

\* C10: a receipt poll that has started ends; it makes at most
\* ReceiptPollingRetries attempts, ReceiptPollingDelay apart, and when no
\* attempt finds a receipt the call returns no receipt and no error.
C10_PollingTerminates ==
    /\ (pc = "GetUserOperationReceipt") ~> (pc = "done")
    /\ [](/\ poll.attempts <= client.ReceiptPollingRetries
          /\ poll.elapsed = poll.attempts * client.ReceiptPollingDelay
          /\ PollRanOut =>
               /\ poll.attempts = client.ReceiptPollingRetries
               /\ ret.err = NoErr
               /\ ret.result = Ptr([UserOperationHash |-> response,
                                    Receipt |-> NilPtr]))

C10_Witness ==
    /\ PollRanOut
    /\ api = "SendSignedUserOperation"
    /\ poll.attempts = DefaultPollingRetries
    /\ poll.elapsed = DefaultPollingRetries * DefaultPollingDelaySeconds

\* how many times a collaborator call was made
Count(name) == Cardinality({i \in 1..Len(calls) : calls[i].name = name})

\* the calls of SendUserOperation that come before the submission
BeforeSubmit == {CallOrder[i] : i \in 1..5}

\* C13: one SendUserOperation signs at most once and submits at most once,
\* and submits only after the build (nonce, gas price, sponsorship, hash) and
\* the signing all succeeded; when one of them fails the call returns that
\* error and no result, and BundlerClient.SendUserOperation is not called.
C13_SignAndSubmitOnce ==
    api = "SendUserOperation" =>
        /\ Count("SignUserOperationHash") <= 1
        /\ Count("SendUserOperation") <= 1
        /\ Called("SendUserOperation") =>
             \A n \in BeforeSubmit : Called(n) /\ CallOf(n).status = "ok"
        /\ \A i \in 1..Len(calls) :
             (pc = "done" /\ calls[i].name \in BeforeSubmit /\ calls[i].status = "err") =>
                 /\ ret.err = calls[i].res
                 /\ ret.err # NoErr
                 /\ ret.result = NilPtr
                 /\ ~Called("SendUserOperation")

C13_Witness ==
    /\ api = "SendUserOperation"
    /\ pc = "done"
    /\ Called("SignUserOperationHash")
    /\ CallOf("SignUserOperationHash").status = "err"
    /\ ret.err = "signing failed"
    /\ ~Called("SendUserOperation")

\* C14: the result of a submission holds a receipt only if waiting was asked
\* for and the poll found one within the retries; without waiting no receipt
\* request is made and the result holds no receipt.
C14_ReceiptOnlyWhenWaited ==
    api \in {"SendUserOperation", "SendSignedUserOperation"} =>
        /\ ~args.waitForReceipt => ~Called("GetUserOperationReceipt")
        /\ (pc = "done" /\ ret.err = NoErr) =>
             LET receipt == ret.result.val.Receipt
             IN  /\ receipt # NilPtr =>
                      /\ args.waitForReceipt
                      /\ Called("GetUserOperationReceipt")
                      /\ CallOf("GetUserOperationReceipt").status = "ok"
                      /\ receipt = CallOf("GetUserOperationReceipt").res
                      /\ poll.attempts < client.ReceiptPollingRetries
                 /\ ~args.waitForReceipt => receipt = NilPtr

C14_Witness ==
    /\ api = "SendSignedUserOperation"
    /\ pc = "done"
    /\ args.waitForReceipt
    /\ ret.err = NoErr
    /\ ret.result.val.Receipt = Ptr([success |-> TRUE])
    /\ poll.attempts > 0

\* C15: the Client's ReceiptPollingDelay and ReceiptPollingRetries are
\* positive; each is the configured value when that value is positive and
\* the default (10, 24) otherwise, independently of the other; no method
\* changes them, and they are the delay and retries of every receipt poll,
\* from a submission and from GetUserOperationReceipt alike.
C15_PollingSettings ==
    /\ [](/\ client.ReceiptPollingDelay > 0
          /\ client.ReceiptPollingRetries > 0
          /\ client.ReceiptPollingDelay =
                IF config.ReceiptPollingDelaySeconds > 0
                THEN config.ReceiptPollingDelaySeconds ELSE DefaultPollingDelaySeconds
          /\ client.ReceiptPollingRetries =
                IF config.ReceiptPollingRetries > 0
                THEN config.ReceiptPollingRetries ELSE DefaultPollingRetries
          /\ \A i \in 1..Len(calls) :
               calls[i].name = "GetUserOperationReceipt" =>
                   /\ calls[i].arg.delay = client.ReceiptPollingDelay
                   /\ calls[i].arg.retries = client.ReceiptPollingRetries)
    /\ [][client' = client /\ config' = config]_vars

C15_Witness ==
    /\ config.ReceiptPollingDelaySeconds = MaxCfgDelay
    /\ config.ReceiptPollingRetries = 0
    /\ client.ReceiptPollingRetries = DefaultPollingRetries
    /\ api = "GetUserOperationReceipt"
    /\ pc = "done"
    /\ calls[1].arg.delay = MaxCfgDelay
    /\ calls[1].arg.retries = DefaultPollingRetries

\* C20: Client.GetUserOperationReceipt submits nothing: its only collaborator
\* call is one receipt poll for the identifier held by the result it was
\* given, with the Client's delay and retries, and a failed or exhausted poll
\* is returned to the caller as an error with no receipt.
C20_PureRepoll ==
    api = "GetUserOperationReceipt" =>
        /\ Len(calls) = 1
        /\ calls[1].name = "GetUserOperationReceipt"
        /\ calls[1].arg = [id |-> args.result.UserOperationHash,
                           delay |-> client.ReceiptPollingDelay,
                           retries |-> client.ReceiptPollingRetries]
        /\ pc = "done" =>
             /\ calls[1].status = "err" =>
                  /\ ret.err = calls[1].res
                  /\ ret.err # NoErr
                  /\ ret.receipt = NilPtr
             /\ calls[1].status = "ok" =>
                  /\ ret.err = NoErr
                  /\ ret.receipt = calls[1].res

C20_Witness ==
    /\ api = "GetUserOperationReceipt"
    /\ pc = "done"
    /\ args.result.UserOperationHash = <<9>>
    /\ calls[1].arg.id = <<9>>
    /\ poll.attempts = client.ReceiptPollingRetries
    /\ ret.err = "receipt not found"

-----------------------------------------------------------------------------
(* Properties of the packing and the hash *)

OtherFieldsKept(f) == \A g \in HashCoveredFields \ {f} : cop'[g] = cop[g]

\* the four fields packed in pairs are below 2^128: at most 16 bytes each
HalvesFit(uop) == \A f \in HalfFields : Len(Bytes(uop[f])) <= HalfLen

\* the value held by 16 bytes of a slot
HalfValue(slot, from) == SetBytes(SubSeq(slot, from, from + HalfLen - 1))

C6_AnyMagnitude ==
    [][/\ (/\ cop'.VerificationGasLimit = cop.CallGasLimit
           /\ cop'.CallGasLimit = cop.VerificationGasLimit
           /\ cop.VerificationGasLimit # cop.CallGasLimit) =>
              cpacked'[5] # cpacked[5]
       /\ (/\ cop'.MaxPriorityFeePerGas = cop.MaxFeePerGas
           /\ cop'.MaxFeePerGas = cop.MaxPriorityFeePerGas
           /\ cop.MaxPriorityFeePerGas # cop.MaxFeePerGas) =>
              cpacked'[7] # cpacked[7]]_vars

\* C6, amended: for A # B both below 2^128, exchanging the two values of a
\* pair changes its 32-byte slot (gas limits and fees alike).
C6_OrderSensitive ==
    [][/\ (/\ cop'.VerificationGasLimit = cop.CallGasLimit
           /\ cop'.CallGasLimit = cop.VerificationGasLimit
           /\ cop.VerificationGasLimit # cop.CallGasLimit
           /\ Len(Bytes(cop.VerificationGasLimit)) <= HalfLen
           /\ Len(Bytes(cop.CallGasLimit)) <= HalfLen) =>
              cpacked'[5] # cpacked[5]
       /\ (/\ cop'.MaxPriorityFeePerGas = cop.MaxFeePerGas
           /\ cop'.MaxFeePerGas = cop.MaxPriorityFeePerGas
           /\ cop.MaxPriorityFeePerGas # cop.MaxFeePerGas
           /\ Len(Bytes(cop.MaxPriorityFeePerGas)) <= HalfLen
           /\ Len(Bytes(cop.MaxFeePerGas)) <= HalfLen) =>
              cpacked'[7] # cpacked[7]]_vars

C6_Witness ==
    /\ cop.VerificationGasLimit = Big(<<1>>)
    /\ cop.CallGasLimit = Big(Rep(1, HalfLen))
    /\ cop.MaxPriorityFeePerGas = Big(Rep(1, HalfLen))
    /\ cop.MaxFeePerGas = Big(<<>>)
    /\ cpacked[5] = toArray32(createPackedBuffer(<<1>>, Rep(1, HalfLen)))

\* the slot holds first in its upper 16 bytes and second in its lower 16
SlotHolds(slot, first, second) ==
    /\ Len(slot) = WordLen
    /\ HalfValue(slot, 1) = Bytes(first)
    /\ HalfValue(slot, HalfLen + 1) = Bytes(second)

\* C7 as stated: for every operation the accountGasLimits slot is
\* verificationGasLimit * 2^128 + callGasLimit and the gasFees slot is
\* maxPriorityFeePerGas * 2^128 + maxFeePerGas.
C7_EveryOperation ==
    /\ SlotHolds(cpacked[5], cop.VerificationGasLimit, cop.CallGasLimit)
    /\ SlotHolds(cpacked[7], cop.MaxPriorityFeePerGas, cop.MaxFeePerGas)

\* C7, amended: when both values of a pair are below 2^128, its slot is 32
\* bytes with the first value in the upper 16 bytes and the second in the
\* lower 16: verificationGasLimit above callGasLimit, maxPriorityFeePerGas
\* above maxFeePerGas.
C7_SlotLayout ==
    /\ (/\ Len(Bytes(cop.VerificationGasLimit)) <= HalfLen
        /\ Len(Bytes(cop.CallGasLimit)) <= HalfLen) =>
           SlotHolds(cpacked[5], cop.VerificationGasLimit, cop.CallGasLimit)
    /\ (/\ Len(Bytes(cop.MaxPriorityFeePerGas)) <= HalfLen
        /\ Len(Bytes(cop.MaxFeePerGas)) <= HalfLen) =>
           SlotHolds(cpacked[7], cop.MaxPriorityFeePerGas, cop.MaxFeePerGas)

C7_Witness ==
    /\ cop.VerificationGasLimit = Big(Rep(1, HalfLen))
    /\ cop.CallGasLimit = Big(<<1>>)
    /\ cop.MaxPriorityFeePerGas = Big(<<1>>)
    /\ cop.MaxFeePerGas = Big(Rep(1, HalfLen))
    /\ cpacked[5] = Rep(1, HalfLen) \o Rep(0, HalfLen - 1) \o <<1>>

\* C8: the hash is keccak256 of (keccak256 of the packed operation, the
\* gateway's address, its chain ID), so the same operation hashed on a
\* gateway that differs in the chain ID alone, or in the address alone, has
\* a different hash.
C8_DomainBinding ==
    [][/\ chash' = Keccak256Hash(<< Keccak256Hash(cpacked'),
                                    PackAddress(centry'.Address),
                                    PackUint256(centry'.ChainID) >>)
       /\ (/\ cop' = cop
           /\ centry'.ChainID # centry.ChainID
           /\ centry'.Address = centry.Address) => chash' # chash
       /\ (/\ cop' = cop
           /\ centry'.Address # centry.Address
           /\ centry'.ChainID = centry.ChainID) => chash' # chash]_vars

C8_Witness ==
    /\ centry.ChainID = Big(<<1, 56, 130>>)
    /\ centry.Address = Rep(1, AddressLength)
    /\ cop.Nonce = Big(Rep(1, WordLen))
    /\ chash = GetUserOperationHash(centry, cop)

\* C18: the last packed slot is always the hash of the empty byte string:
\* operations that differ only in Paymaster, PaymasterData and Signature
\* give the same PackUserOperation bytes and the same operation hash.
C18_PaymasterNotCovered ==
    /\ [](cpacked[8] = PackBytes32(Keccak256Hash(<<>>)))
    /\ [][ (\A f \in HashCoveredFields : cop'[f] = cop[f]) =>
              (cpacked' = cpacked /\ chash' = chash) ]_vars

C18_Witness ==
    /\ cop.Paymaster = Rep(119, AddressLength)
    /\ cop.PaymasterData = <<1, 2>>
    /\ cop.Signature = <<27, 1>>
    /\ cop.CallData = <<222, 173, 190, 239>>
    /\ cpacked[8] = PackBytes32(Keccak256Hash(<<>>))

-----------------------------------------------------------------------------
(* Properties of invocations running at once *)

\* the invocation has built and hashed its operation
Built(p) ==
    \/ inv[p].opHash # NilPtr
    \/ /\ inv[p].api = "GetUserOperationAndHashToSign"
       /\ inv[p].pc = "done"
       /\ inv[p].ret.err = NoErr

\* C12 as stated: no two operations built on one Client for the same sender
\* carry the same nonce.
C12_NoNonceReuse ==
    \A p \in Procs, q \in Procs :
        (p # q /\ Built(p) /\ Built(q) /\ inv[p].op.Sender = inv[q].op.Sender) =>
            inv[p].op.Nonce # inv[q].op.Nonce

\* C12, amended: the nonce of an operation is the one its own GetNonce call
\* returned, which is the account's nonce on the chain at the time of that
\* call; two operations built for the same sender carry different nonces
\* exactly when the chain executed an operation of the sender between their
\* two GetNonce calls, and the same nonce otherwise.
C12_NonceFromOwnFetch ==
    /\ \A p \in Procs :
         inv[p].seen.nonce # NilPtr =>
             /\ inv[p].op.Nonce = inv[p].seen.nonce.val
             /\ inv[p].op.Nonce = IF inv[p].fetchedAt = 0 THEN Big(<<>>)
                                   ELSE Big(<<inv[p].fetchedAt>>)
             /\ inv[p].fetchedAt <= chainNonce
    /\ \A p \in Procs, q \in Procs :
         (Built(p) /\ Built(q) /\ inv[p].op.Sender = inv[q].op.Sender) =>
             (inv[p].op.Nonce = inv[q].op.Nonce <=> inv[p].fetchedAt = inv[q].fetchedAt)

C12_Witness ==
    /\ Built(1)
    /\ Built(2)
    /\ inv[1].fetchedAt = 0
    /\ inv[2].fetchedAt = 1
    /\ inv[1].op.Nonce = Big(<<>>)
    /\ inv[2].op.Nonce = Big(<<1>>)

\* the operation that follows from an invocation's own arguments and the
\* responses to its own collaborator calls
ExpectedOp(a, s) ==
    LET o1 == IF s.nonce = NilPtr THEN ZeroOp
              ELSE [ZeroOp EXCEPT !.Sender = a.sender, !.Nonce = s.nonce.val,
                                  !.CallData = a.callData]
        o2 == IF s.gasPrice = NilPtr THEN o1 ELSE ApplyGasPrice(o1, s.gasPrice.val)
        o3 == IF s.sponsor = NilPtr THEN o2 ELSE ApplySponsorResponse(o2, s.sponsor.val)
    IN  IF s.signature = NilPtr THEN o3 ELSE [o3 EXCEPT !.Signature = s.signature.val]

\* C19: with several invocations interleaved on one Client, the operation
\* and the hash of each are those that follow from its own arguments and the
\* responses to its own collaborator calls, and no invocation changes a
\* field of the Client.
C19_InvocationsIsolated ==
    /\ [](\A p \in Procs :
            LET e == ExpectedOp(inv[p].args, inv[p].seen)
            IN  /\ inv[p].op = e
                /\ inv[p].opHash # NilPtr =>
                     inv[p].opHash = Ptr(GetUserOperationHash(client.EntryPoint, e))
                /\ ( /\ inv[p].api = "GetUserOperationAndHashToSign"
                     /\ inv[p].pc = "done"
                     /\ inv[p].ret.err = NoErr ) =>
                       /\ inv[p].ret.op = Ptr(e)
                       /\ inv[p].ret.hash = Ptr(GetUserOperationHash(client.EntryPoint, e)))
    /\ [][client' = client]_vars

C19_Witness ==
    /\ inv[1].pc = "GetUserOperationHash"
    /\ inv[2].pc = "SignUserOperationHash"
    /\ inv[1].args.callData # inv[2].args.callData
    /\ inv[1].seen.sponsor # inv[2].seen.sponsor
    /\ inv[1].op.CallData = inv[1].args.callData
    /\ inv[2].op.CallData = inv[2].args.callData
    /\ inv[1].op.CallGasLimit # inv[2].op.CallGasLimit

-----------------------------------------------------------------------------
(* Properties of NewClient *)

\* C11: whenever NewClient returns an error, every RPC connection it had
\* opened (network, paymaster, bundler) has been closed by the time it
\* returns, also when an initialisation fails after all three were dialed.
C11_ConnectionsReleased ==
    (npc = "done" /\ nret.err # NoErr) => \A n \in ConnNames : conns[n] # "open"

\* C16: NewClient given a configuration without a signing key, a paymaster
\* URL, a bundler URL or a chain ID, or with an EntryPoint version other than
\* "0.7", returns the configuration error and no Client, and dials nothing.
C16_ConfigRejectedBeforeDial ==
    ( \/ config.AccountPK = NilPtr
      \/ config.PaymasterURL = NilPtr
      \/ config.BundlerURL = NilPtr
      \/ config.ChainID = NilBig
      \/ config.EntryPointVersion # "0.7" ) =>
        /\ conns = NoConns
        /\ npc \in {"CheckConfig", "done"}
        /\ npc = "done" =>
             /\ nret.client = NilPtr
             /\ nret.err = "accountPK, paymasterURL, bundlerURL, entryPointVersion and chainID are required"

C16_Witness ==
    /\ npc = "done"
    /\ config.ChainID = NilBig
    /\ config.AccountPK # NilPtr
    /\ config.EntryPointVersion = "0.7"
    /\ nret.client = NilPtr
    /\ nret.err # NoErr

=============================================================================
